---------------------------- MODULE Spec2Model ----------------------------
(***************************************************************************)
(* The three notebooks of the repository as a state machine.               *)
(*                                                                         *)
(*   survey          term1/MMAI A1.ipynb                                   *)
(*   recommender     unnamed/part_000                                      *)
(*   regularization  term2/Predictive_Modeling/Regularization Methods.ipynb*)
(*                                                                         *)
(* A notebook is a sequence of cells, a cell a sequence of statements.     *)
(* Each notebook runs in a kernel of its own, cell by cell in document     *)
(* order; a statement that raises aborts its cell and stops the run.  The  *)
(* file system and the Python environment (site-packages) are shared by    *)
(* the notebooks.                                                          *)
(***************************************************************************)
EXTENDS Integers, Sequences, FiniteSets, TLC

VARIABLES
    fs,             \* path or URL -> sheet; DOMAIN fs are the existing files
    site_packages,  \* the importable top-level packages
    env,            \* what the run does not change: network, disk, seeds, the initial world
    ns,             \* kernel -> namespace (name -> value)
    pc,             \* notebook -> [cell, stmt]: the next statement
    status,         \* notebook -> "ready" | "busy" | "error" | "done"
    running,        \* kernel -> the cells executing in it, as <<notebook, cell>>
    In,             \* kernel -> the last execution count it stamped
    stamped,        \* notebook -> the execution counts of its executed cells, in order
    log,            \* notebook -> the statements it attempted, in order
    ext             \* notebook -> its external interactions, in order

vars == <<fs, site_packages, env, ns, pc, status, running, In, stamped, log, ext>>

---------------------------------------------------------------------------
(* Bounds of the model. *)

\* Rows of the survey sheet.
MaxRows == 2
\* Columns strictly between SMALG1_W99 and DCARS13_d_W99 in the survey sheet.
MaxMid == 2
\* Observations per drawn vector (100 in the regularization notebook).
NObs == 2
\* The seeds a kernel's random generator may start from.
MaxSeed == 1

---------------------------------------------------------------------------
(* Generic helpers. *)

Range(s) == {s[i] : i \in DOMAIN s}

EmptyNs == [x \in {} |-> 0]

\* name = value in a namespace (or key = value in a row).
Bind(n, name, val) == [x \in DOMAIN n \cup {name} |-> IF x = name THEN val ELSE n[x]]

Restrict(f, S) == [x \in DOMAIN f \cap S |-> f[x]]

\* The float NaN pandas gives an empty cell: equal to no dictionary key.
NaN == "<NaN>"

\* dict.get(key, default)
dict_get(d, key, default) == IF key \in DOMAIN d THEN d[key] ELSE default

\* Index.get_loc(name) on unique labels: the 0-based position.
get_loc(columns, name) == (CHOOSE i \in 1..Len(columns) : columns[i] = name) - 1

\* seq[a:b] for 0 <= a, 0 <= b: 0-based, b excluded.
PySlice(s, a, b) ==
    LET hi == IF b > Len(s) THEN Len(s) ELSE b
    IN  IF a >= hi THEN <<>> ELSE SubSeq(s, a + 1, hi)

Notebooks == {"survey", "recommender", "regularization"}

\* A variant in which the three notebooks are attached to one kernel.
Kernel_shared(nb) == "survey"

\* Each notebook file has a kernel (a Python process) of its own.
Kernel(nb) == nb

Kernels == {Kernel(nb) : nb \in Notebooks}


---------------------------------------------------------------------------
(* Frames.  A sheet or DataFrame is [columns, rows]: the column labels in   *)
(* order, and the rows in order, each a function from the labels to values. *)

Frame(columns, rows) == [columns |-> columns, rows |-> rows]

\* df[col] = values: a new label is appended, an existing one keeps its place.
\* A frame without columns takes its rows from the values.
setitem(df, col, values) ==
    IF Len(df.columns) = 0
    THEN Frame(<<col>>, [i \in DOMAIN values |-> (col :> values[i])])
    ELSE Frame(IF col \in Range(df.columns) THEN df.columns ELSE Append(df.columns, col),
               [i \in DOMAIN df.rows |-> Bind(df.rows[i], col, values[i])])

\* df.drop(labels, axis=1): every column whose label is among labels goes.
drop(df, labels) ==
    LET Keep(c) == c \notin labels
        kept == SelectSeq(df.columns, Keep)
    IN  Frame(kept, [i \in DOMAIN df.rows |-> Restrict(df.rows[i], Range(kept))])

\* pd.merge(left, right, on=key): the inner join, in the order of the left rows.
RECURSIVE merge_rows(_, _, _, _)
merge_rows(lrows, rrows, key, i) ==
    IF i > Len(lrows) THEN <<>>
    ELSE LET Match(r) == r[key] = lrows[i][key]
             Join(r) == [c \in DOMAIN lrows[i] \cup DOMAIN r |->
                            IF c \in DOMAIN lrows[i] THEN lrows[i][c] ELSE r[c]]
             hits == SelectSeq(rrows, Match)
         IN  [j \in 1..Len(hits) |-> Join(hits[j])] \o merge_rows(lrows, rrows, key, i + 1)

merge(left, right, key) ==
    LET NotKey(c) == c # key
    IN  Frame(left.columns \o SelectSeq(right.columns, NotKey),
              merge_rows(left.rows, right.rows, key, 1))

---------------------------------------------------------------------------
(* The survey notebook's remapping function.                               *)

mapping_sign_slip ==
    ("Conservative Rep/Lean" :> -2) @@
    ("Moderate/Liberal Rep/Lean" :> 1) @@
    ("Moderate/Conservative Dem/Lean" :> 1) @@
    ("Liberal Dem/Lean" :> 2) @@
    ("Refused either F_IDEO or F_PARTYSUM_FINAL" :> 0) @@
    ("DK/Refused/No lean" :> 0)

mapping ==
    ("Conservative Rep/Lean" :> -2) @@
    ("Moderate/Liberal Rep/Lean" :> -1) @@
    ("Moderate/Conservative Dem/Lean" :> 1) @@
    ("Liberal Dem/Lean" :> 2) @@
    ("Refused either F_IDEO or F_PARTYSUM_FINAL" :> 0) @@
    ("DK/Refused/No lean" :> 0)

\* A variant that falls back on the party summary when the label is unmapped.
calculate_political_leaning_fallback(row) ==
    IF row["F_PARTYSUMIDEO_FINAL"] \in DOMAIN mapping
    THEN mapping[row["F_PARTYSUMIDEO_FINAL"]]
    ELSE IF row["F_PARTYSUM_FINAL"] = "Rep/Lean Rep" THEN -1
    ELSE IF row["F_PARTYSUM_FINAL"] = "Dem/Lean Dem" THEN 1 ELSE 0

\* A variant whose lookup defaults to -1: mapping.get(leaning, -1).
calculate_political_leaning_default_right(row) ==
    dict_get(mapping, row["F_PARTYSUMIDEO_FINAL"], -1)

calculate_political_leaning(row) ==
    LET leaning == row["F_PARTYSUMIDEO_FINAL"]
    IN  dict_get(mapping, leaning, 0)

\* df.apply(calculate_political_leaning, axis=1): one value per row, in row order.
apply_rows(df) == [i \in DOMAIN df.rows |-> calculate_political_leaning(df.rows[i])]

SrcPath == "AI-Human-PewData.xlsx"
ModPath == "Modified_AI-Human-PewData.xlsx"
start_col == "SMALG1_W99"
end_col == "DCARS13_d_W99"

\* A variant of the column range that leaves the end column out of the slice.
drop_range_end_excluded(df, start_index, end_index) ==
    drop(df, Range(PySlice(df.columns, start_index, end_index - 1)))

\* df.drop(df.columns[start_index:end_index], axis=1, inplace=True)
drop_range(df, start_index, end_index) ==
    drop(df, Range(PySlice(df.columns, start_index, end_index)))

---------------------------------------------------------------------------
(* The notebooks as programs.  A statement is                               *)
(*   op     what it does                                                    *)
(*   tgt    the name it binds ("" when none)                                *)
(*   uses   the names it reads: an unbound one raises NameError             *)
(*   args   its literal arguments                                           *)
(*   stage  setup | load | transform | model | fit | fit_report | report |  *)
(*          show | predict | write                                          *)
(*   model  the model variable a fit or a report is about ("" when none)    *)

St(op, tgt, uses, args, stage, model) ==
    [op |-> op, tgt |-> tgt, uses |-> uses, args |-> args, stage |-> stage, model |-> model]

\* import module as name / from module import names
Import(module, names) ==
    St("import", "", {}, [module |-> module, names |-> names], "setup", "")

\* A bare expression or a print: shows frame[cols] (cols = {} for the whole value).
Display(uses, frame, cols, stage, model) ==
    St("display", "", uses, [frame |-> frame, cols |-> cols], stage, model)

Assign(tgt, value) == St("assign", tgt, {}, [value |-> value], "setup", "")

ToExcel(frame, path) ==
    St("to_excel", "", {frame}, [frame |-> frame, path |-> path], "write", "")

survey_cells == <<
    \* In [42]
    << Import("numpy", {"np"}), Import("pandas", {"pd"}),
       Import("seaborn", {"sns"}), Import("matplotlib", {"plt"}) >>,
    \* In [43]
    << St("read", "df", {"pd"}, [path |-> SrcPath, format |-> "excel"], "load", "") >>,
    \* In [44]
    << Display({"df"}, "df", {}, "show", "") >>,
    \* In [45]
    << Assign("calculate_political_leaning", "function"),
       St("apply_leaning", "df", {"df", "calculate_political_leaning"},
          [col |-> "political_leaning_index"], "transform", ""),
       Display({"df"}, "df", {"F_PARTYLN_FINAL", "F_PARTYSUM_FINAL",
                              "F_PARTYSUMIDEO_FINAL", "political_leaning_index"}, "show", ""),
       ToExcel("df", ModPath) >>,
    \* In [46]
    << Assign("start_col", start_col),
       Assign("end_col", end_col),
       St("get_loc", "start_index", {"df", "start_col"}, [label |-> "start_col", plus |-> 0],
          "setup", ""),
       St("get_loc", "end_index", {"df", "end_col"}, [label |-> "end_col", plus |-> 1],
          "setup", ""),
       St("drop_range", "df", {"df", "start_index", "end_index"}, [axis |-> 1], "transform", ""),
       Display({"df"}, "df", {}, "show", ""),
       ToExcel("df", ModPath) >>
  >>

RatingsUrl == "https://raw.githubusercontent.com/delinai/schulich_ds1/main/Datasets/ratings.csv"
MoviesUrl == "https://raw.githubusercontent.com/delinai/schulich_ds1/main/Datasets/movies.csv"

recommender_cells == <<
    \* In [1]
    << St("pip", "", {}, [package |-> "scikit-surprise", provides |-> "surprise"], "setup", "") >>,
    \* In [2]
    << Import("pandas", {"pd"}), Import("surprise", {"Dataset", "Reader"}),
       Import("surprise", {"KNNBasic"}), Import("surprise", {"cross_validate"}) >>,
    \* In [3]
    << St("read", "ratings_df", {"pd"}, [path |-> RatingsUrl, format |-> "csv"], "load", ""),
       St("read", "movies_df", {"pd"}, [path |-> MoviesUrl, format |-> "csv"], "load", ""),
       St("merge", "data", {"pd", "ratings_df", "movies_df"},
          [left |-> "ratings_df", right |-> "movies_df", on |-> "movieId"], "transform", ""),
       St("new", "reader", {"Reader"}, [class |-> "Reader", params |-> [rating_scale |-> <<1, 10>>]],
          "setup", ""),
       St("load_from_df", "data", {"Dataset", "data", "reader"},
          [frame |-> "data", cols |-> <<"userId", "movieId", "rating">>, reader |-> "reader"],
          "transform", "") >>,
    \* In [4]
    << Assign("sim_options", [name |-> "cosine", user_based |-> FALSE]),
       St("new", "algo", {"KNNBasic", "sim_options"},
          [class |-> "KNNBasic", params |-> [sim_options_var |-> "sim_options"]], "model", "algo") >>,
    \* In [5]
    << St("cross_validate", "", {"cross_validate", "algo", "data"},
          [algo |-> "algo", data |-> "data", measures |-> <<"RMSE">>, cv |-> 5],
          "fit_report", "algo") >>,
    \* In [6]
    << St("fit", "", {"algo", "data"}, [algo |-> "algo", on |-> "data", full |-> TRUE], "fit", "algo"),
       Display({"algo"}, "", {}, "report", "algo") >>,
    \* In [7]
    << St("predict", "pred", {"algo"}, [algo |-> "algo", uid |-> 1, iid |-> 10], "predict", "algo"),
       Display({"pred"}, "", {}, "show", "") >>,
    \* In [8]
    << St("merge", "df", {"pd", "ratings_df", "movies_df"},
          [left |-> "ratings_df", right |-> "movies_df", on |-> "movieId"], "transform", "") >>,
    \* In [9]
    << Import("seaborn", {"sns"}), Import("numpy", {"np"}) >>,
    \* In [10]
    << Import("surprise", {"train_test_split"}), Import("surprise", {"accuracy"}) >>,
    \* In [11]
    << St("train_test_split", "", {"train_test_split", "data"},
          [data |-> "data", train |-> "trainset", test |-> "testset", quarters |-> 1],
          "transform", "") >>,
    \* In [12]
    << St("new", "algo", {"KNNBasic"},
          [class |-> "KNNBasic", params |-> [sim_options |-> [user_based |-> FALSE]]],
          "model", "algo"),
       St("fit", "", {"algo", "trainset"}, [algo |-> "algo", on |-> "trainset", full |-> FALSE],
          "fit", "algo"),
       St("test", "predictions", {"algo", "testset"}, [algo |-> "algo", on |-> "testset"],
          "predict", "algo"),
       St("rmse", "", {"accuracy", "predictions"}, [predictions |-> "predictions"],
          "report", "algo") >>,
    \* In [13]
    << Import("surprise", {"SVD"}) >>,
    \* In [14]
    << St("new", "svd", {"SVD"}, [class |-> "SVD", params |-> [x \in {} |-> 0]], "model", "svd"),
       St("cross_validate", "", {"cross_validate", "svd", "data"},
          [algo |-> "svd", data |-> "data", measures |-> <<"RMSE">>, cv |-> 5],
          "fit_report", "svd") >>,
    \* In [15]
    << St("build_full_trainset", "trainset2", {"data"}, [data |-> "data"], "transform", ""),
       St("fit", "", {"svd", "trainset"}, [algo |-> "svd", on |-> "trainset", full |-> FALSE],
          "fit", "svd"),
       Display({"svd"}, "", {}, "show", "") >>,
    \* In [16]
    << St("predict_all", "df", {"df", "svd"},
          [algo |-> "svd", col |-> "predicted_rating", uid |-> "userId", iid |-> "movieId"],
          "predict", "svd") >>
  >>

\* name = np.random.uniform(lo, hi, 100) / np.random.normal(lo, hi, 100)
Draw(tgt, dist, lo, hi) ==
    St("draw", tgt, {"np"}, [dist |-> dist, lo |-> lo, hi |-> hi], "load", "")

\* frame[col] = pd.Series(src); src "ones" is np.ones(100)
SetCol(frame, col, src) ==
    St("set_col", frame, {"pd", frame} \cup (IF src = "ones" THEN {"np"} ELSE {src}),
       [frame |-> frame, col |-> col, src |-> src], "transform", "")

\* A variant of In [5] that prints the summary before the fit.
ols_cell_summary_first ==
    << Display({"model_reg"}, "", {}, "report", "model_reg"),
       St("ols_fit", "model_reg", {"sm", "y", "X_ols"}, [endog |-> "y", exog |-> "X_ols"],
          "fit", "model_reg") >>

\* In [5]: model_reg = sm.OLS(y, X_ols).fit(); model_reg.summary()
ols_cell ==
    << St("ols_fit", "model_reg", {"sm", "y", "X_ols"}, [endog |-> "y", exog |-> "X_ols"],
          "fit", "model_reg"),
       Display({"model_reg"}, "", {}, "report", "model_reg") >>

\* y's coefficients are kept times ten, so that the arithmetic stays in the integers.
regularization_cells == <<
    \* In [1]
    << Import("numpy", {"np"}),
       Import("pandas", {"pd"}),
       Import("matplotlib", {"plt"}),
       Import("statsmodels", {"sm"}),
       Import("sklearn", {"lm"}) >>,
    \* In [2]
    << Draw("x_1", "uniform", 10, 40),
       Draw("x_2", "uniform", -50, 20),
       Draw("x_3", "uniform", 20, 60),
       Draw("x_4", "uniform", 10, 40),
       Draw("x_5", "uniform", -50, 20),
       Draw("x_6", "uniform", 20, 60),
       Draw("epsilon", "normal", 0, 10) >>,
    \* In [3]
    << St("compute_y", "y", {"x_1", "x_2", "x_3", "x_4", "x_5", "x_6", "epsilon"}, [intercept |-> -300, coef |-> <<13, 16, 11, 7, -21, -9>>, noise |-> 10], "load", "") >>,
    \* In [4]
    << St("new_frame", "X_ols", {"pd"}, [class |-> "DataFrame"], "transform", ""),
       SetCol("X_ols", "Constant", "ones"),
       SetCol("X_ols", "X1", "x_1"),
       SetCol("X_ols", "X2", "x_2"),
       SetCol("X_ols", "X3", "x_3"),
       SetCol("X_ols", "X4", "x_4"),
       SetCol("X_ols", "X5", "x_5"),
       SetCol("X_ols", "X6", "x_6") >>,
    \* In [5]
    ols_cell,
    \* In [6]
    << Draw("x_7", "uniform", 10, 40),
       Draw("x_8", "uniform", -50, 20),
       Draw("x_9", "uniform", 20, 60),
       Draw("x_10", "uniform", 10, 40),
       Draw("x_11", "uniform", -50, 20),
       Draw("x_12", "uniform", 20, 60) >>,
    \* In [7]
    << St("new_frame", "X_ext", {"pd"}, [class |-> "DataFrame"], "transform", ""),
       SetCol("X_ext", "Constant", "ones"),
       SetCol("X_ext", "X1", "x_1"),
       SetCol("X_ext", "X2", "x_2"),
       SetCol("X_ext", "X3", "x_3"),
       SetCol("X_ext", "X4", "x_4"),
       SetCol("X_ext", "X5", "x_5"),
       SetCol("X_ext", "X6", "x_6"),
       SetCol("X_ext", "X7", "x_7"),
       SetCol("X_ext", "X8", "x_8"),
       SetCol("X_ext", "X9", "x_9"),
       SetCol("X_ext", "X10", "x_10"),
       SetCol("X_ext", "X11", "x_11"),
       SetCol("X_ext", "X12", "x_12") >>,
    \* In [8]
    << St("ols_fit", "model_reg", {"sm", "y", "X_ext"}, [endog |-> "y", exog |-> "X_ext"], "fit", "model_reg"),
       Display({"model_reg"}, "", {}, "report", "model_reg") >>,
    \* In [9]
    << St("drop_cols", "X_ext", {"X_ext"}, [frame |-> "X_ext", columns |-> {"Constant"}], "transform", ""),
       St("sk_fit", "model_lasso", {"lm", "X_ext", "y"}, [class |-> "Lasso", alpha |-> 1, X |-> "X_ext", y |-> "y"], "fit", "model_lasso"),
       Display({"model_lasso"}, "", {}, "report", "model_lasso") >>,
    \* In [15]
    << St("sk_fit", "model_lasso", {"lm", "X_ext", "y"}, [class |-> "Lasso", alpha |-> 100, X |-> "X_ext", y |-> "y"], "fit", "model_lasso"),
       Display({"model_lasso"}, "", {}, "report", "model_lasso") >>,
    \* In [16]
    << St("sk_fit", "model_ridge", {"lm", "X_ext", "y"}, [class |-> "Ridge", alpha |-> 10, X |-> "X_ext", y |-> "y"], "fit", "model_ridge"),
       Display({"model_ridge"}, "", {}, "report", "model_ridge") >>,
    \* In [19]
    << St("sk_fit", "model_ridge", {"lm", "X_ext", "y"}, [class |-> "Ridge", alpha |-> 10000, X |-> "X_ext", y |-> "y"], "fit", "model_ridge"),
       Display({"model_ridge"}, "", {}, "report", "model_ridge") >>
  >>

Cells(nb) ==
    CASE nb = "survey" -> survey_cells
      [] nb = "recommender" -> recommender_cells
      [] nb = "regularization" -> regularization_cells

\* The execution counts the notebook files record, cell by cell in document order.
execution_count_out_of_order(nb) ==
    CASE nb = "survey" -> <<42, 43, 44, 46, 45>>
      [] nb = "recommender" -> <<1, 2, 3, 4, 5, 6, 7, 8, 9, 10, 11, 12, 13, 14, 15, 16>>
      [] nb = "regularization" -> <<1, 2, 3, 4, 5, 6, 7, 8, 9, 15, 16, 19>>

execution_count(nb) ==
    CASE nb = "survey" -> <<42, 43, 44, 45, 46>>
      [] nb = "recommender" -> <<1, 2, 3, 4, 5, 6, 7, 8, 9, 10, 11, 12, 13, 14, 15, 16>>
      [] nb = "regularization" -> <<1, 2, 3, 4, 5, 6, 7, 8, 9, 15, 16, 19>>

---------------------------------------------------------------------------
(* What a statement does to the kernel's namespace n and the shared world   *)
(* w = [fs, site].  The result says whether it returned or raised, and what *)
(* it left behind; a statement that raises leaves n and w as they were.     *)

Ok(n, w, e) == [ok |-> TRUE, exc |-> "", ns |-> n, fs |-> w.fs, site |-> w.site, ext |-> e]

Raise(exc, n, w, e) ==
    [ok |-> FALSE, exc |-> exc, ns |-> n, fs |-> w.fs, site |-> w.site, ext |-> e]

Urls == {RatingsUrl, MoviesUrl}

\* The kernel's random generator: the number of values drawn so far, and the
\* k-th value of the stream of a seed (one of 0, 1, 2).
Rng(n) == dict_get(n, "_rng", 0)
Sample(seed, k) == ((seed + 1) * k + seed) % 3
Rotate(s, r) == [i \in DOMAIN s |-> s[((i - 1 + r) % Len(s)) + 1]]
Shuffle(s, n) == IF Len(s) = 0 THEN s ELSE Rotate(s, Sample(env.seed, Rng(n) + 1))

E_import(s, n, w) ==
    IF s.args.module \in w.site
    THEN Ok([x \in DOMAIN n \cup s.args.names |->
                IF x \in s.args.names THEN [module |-> s.args.module] ELSE n[x]], w, <<>>)
    ELSE Raise("ModuleNotFoundError", n, w, <<>>)

\* A variant in which the install line is commented out: nothing happens.
E_pip_commented_out(s, n, w) == Ok(n, w, <<>>)

\* pip install: a shell command; it prints its failure and raises nothing.
E_pip(s, n, w) ==
    Ok(n, [w EXCEPT !.site = IF s.args.provides \in w.site \/ ~env.net
                             THEN w.site ELSE w.site \cup {s.args.provides}],
       << [kind |-> "install", target |-> s.args.package] >>)

\* pd.read_excel(path) / pd.read_csv(url)
E_read(s, n, w) ==
    LET p == s.args.path
        e == << [kind |-> "read", target |-> p] >>
    IN  IF p \in DOMAIN w.fs /\ (p \in Urls => env.net)
        THEN Ok(Bind(n, s.tgt, w.fs[p]), w, e)
        ELSE Raise(IF p \in Urls THEN "URLError" ELSE "FileNotFoundError", n, w, e)

\* A variant that leaves a file that exists as it is.
E_to_excel_keeps_existing(s, n, w) ==
    LET e == << [kind |-> "write", target |-> s.args.path] >>
    IN  IF env.writable
        THEN Ok(n, [w EXCEPT !.fs = IF s.args.path \in DOMAIN w.fs THEN w.fs
                                    ELSE Bind(w.fs, s.args.path, n[s.args.frame])], e)
        ELSE Raise("PermissionError", n, w, e)

\* df.to_excel(path, index=False)
E_to_excel(s, n, w) ==
    LET e == << [kind |-> "write", target |-> s.args.path] >>
    IN  IF env.writable
        THEN Ok(n, [w EXCEPT !.fs = Bind(w.fs, s.args.path, n[s.args.frame])], e)
        ELSE Raise("PermissionError", n, w, e)

E_display(s, n, w) ==
    IF s.args.frame = "" \/ s.args.cols \subseteq Range(n[s.args.frame].columns)
    THEN Ok(n, w, <<>>)
    ELSE Raise("KeyError", n, w, <<>>)

E_assign(s, n, w) == Ok(Bind(n, s.tgt, s.args.value), w, <<>>)

\* df['political_leaning_index'] = df.apply(calculate_political_leaning, axis=1)
E_apply_leaning(s, n, w) ==
    IF "F_PARTYSUMIDEO_FINAL" \in Range(n["df"].columns)
    THEN Ok(Bind(n, "df", setitem(n["df"], s.args.col, apply_rows(n["df"]))), w, <<>>)
    ELSE Raise("KeyError", n, w, <<>>)

\* start_index = df.columns.get_loc(start_col); end_index = ...get_loc(end_col) + 1
E_get_loc(s, n, w) ==
    IF n[s.args.label] \in Range(n["df"].columns)
    THEN Ok(Bind(n, s.tgt, get_loc(n["df"].columns, n[s.args.label]) + s.args.plus), w, <<>>)
    ELSE Raise("KeyError", n, w, <<>>)

E_drop_range(s, n, w) ==
    Ok(Bind(n, "df", drop_range(n["df"], n["start_index"], n["end_index"])), w, <<>>)

(* The recommender's library calls. *)

E_merge(s, n, w) ==
    LET l == n[s.args.left]
        r == n[s.args.right]
    IN  IF s.args.on \in Range(l.columns) /\ s.args.on \in Range(r.columns)
        THEN Ok(Bind(n, s.tgt, merge(l, r, s.args.on)), w, <<>>)
        ELSE Raise("KeyError", n, w, <<>>)

\* A variant that never looks at the dictionary it is given.
KNNBasic_options_ignored(sim_options) ==
    [class |-> "KNNBasic", sim_options |-> [name |-> "msd", user_based |-> TRUE],
     given |-> {}, fitted |-> FALSE, trainset |-> <<>>]

\* KNNBasic(sim_options=...): what the dictionary leaves out takes the library's
\* default (name 'msd', user_based True).
KNNBasic(sim_options) ==
    [class |-> "KNNBasic",
     sim_options |-> [name |-> dict_get(sim_options, "name", "msd"),
                      user_based |-> dict_get(sim_options, "user_based", TRUE)],
     given |-> DOMAIN sim_options, fitted |-> FALSE, trainset |-> <<>>]

\* SVD(): every hyperparameter is the library's default.
SVD == [class |-> "SVD", sim_options |-> [x \in {} |-> 0], given |-> {},
        fitted |-> FALSE, trainset |-> <<>>]

E_new(s, n, w) ==
    LET a == s.args
    IN  CASE a.class = "Reader" -> Ok(Bind(n, s.tgt, [class |-> "Reader"] @@ a.params), w, <<>>)
          [] a.class = "SVD" -> Ok(Bind(n, s.tgt, SVD), w, <<>>)
          [] a.class = "KNNBasic" ->
                Ok(Bind(n, s.tgt,
                        KNNBasic(IF "sim_options_var" \in DOMAIN a.params
                                 THEN n[a.params.sim_options_var] ELSE a.params.sim_options)),
                   w, <<>>)

\* Dataset.load_from_df(frame[cols], reader): the (user, item, rating) triples.
E_load_from_df(s, n, w) ==
    LET df == n[s.args.frame]
        c == s.args.cols
    IN  IF Range(c) \subseteq Range(df.columns)
        THEN Ok(Bind(n, s.tgt,
                     [class |-> "Dataset",
                      raw_ratings |-> [i \in DOMAIN df.rows |->
                                          <<df.rows[i][c[1]], df.rows[i][c[2]], df.rows[i][c[3]]>>],
                      rating_scale |-> n[s.args.reader].rating_scale]), w, <<>>)
        ELSE Raise("KeyError", n, w, <<>>)

\* cross_validate(algo, data, cv=5): shuffles, then fits and tests fold by fold;
\* it leaves the algorithm fitted on the last fold's training part.
E_cross_validate(s, n, w) ==
    LET raw == n[s.args.data].raw_ratings
        size == Len(raw) \div s.args.cv
    IN  IF s.args.cv > Len(raw)
        THEN Raise("ValueError", n, w, <<>>)
        ELSE Ok(Bind(Bind(n, s.args.algo,
                          [n[s.args.algo] EXCEPT !.fitted = TRUE,
                              !.trainset = SubSeq(Shuffle(raw, n), 1, Len(raw) - size)]),
                     "_rng", Rng(n) + 1), w, <<>>)

\* algo.fit(data.build_full_trainset()) / algo.fit(trainset)
E_fit(s, n, w) ==
    LET on == IF s.args.full THEN n[s.args.on].raw_ratings ELSE n[s.args.on]
    IN  Ok(Bind(n, s.args.algo, [n[s.args.algo] EXCEPT !.fitted = TRUE, !.trainset = on]),
           w, <<>>)

E_build_full_trainset(s, n, w) == Ok(Bind(n, s.tgt, n[s.args.data].raw_ratings), w, <<>>)

\* train_test_split(data, test_size=0.25): a shuffle, then the quarter (rounded
\* up) is the test set and the rest the training set.
E_train_test_split(s, n, w) ==
    LET raw == Shuffle(n[s.args.data].raw_ratings, n)
        n_test == (s.args.quarters * Len(raw) + 3) \div 4
    IN  Ok(Bind(Bind(Bind(n, s.args.train, SubSeq(raw, 1, Len(raw) - n_test)),
                     s.args.test, SubSeq(raw, Len(raw) - n_test + 1, Len(raw))),
                "_rng", Rng(n) + 1), w, <<>>)

\* The estimate a fitted algorithm gives a (user, item) pair: kept symbolic.
Est(algo, uid, iid) ==
    [by |-> algo.class, sim_options |-> algo.sim_options, trainset |-> algo.trainset,
     uid |-> uid, iid |-> iid]

E_predict(s, n, w) ==
    IF n[s.args.algo].fitted
    THEN Ok(Bind(n, s.tgt, [est |-> Est(n[s.args.algo], s.args.uid, s.args.iid)]), w, <<>>)
    ELSE Raise("AttributeError", n, w, <<>>)

E_test(s, n, w) ==
    LET t == n[s.args.on]
    IN  IF n[s.args.algo].fitted
        THEN Ok(Bind(n, s.tgt,
                     [i \in DOMAIN t |-> [r_ui |-> t[i][3],
                                          est |-> Est(n[s.args.algo], t[i][1], t[i][2])]]),
                w, <<>>)
        ELSE Raise("AttributeError", n, w, <<>>)

E_rmse(s, n, w) ==
    IF Len(n[s.args.predictions]) = 0
    THEN Raise("ValueError", n, w, <<>>) ELSE Ok(n, w, <<>>)

\* A variant that predicts the pair of In [7] for every row: svd.predict(1, 10).est
E_predict_all_fixed_pair(s, n, w) ==
    LET df == n["df"]
        a == s.args
    IN  IF {a.uid, a.iid} \subseteq Range(df.columns) /\ n[a.algo].fitted
        THEN Ok(Bind(n, "df",
                     setitem(df, a.col, [i \in DOMAIN df.rows |-> Est(n[a.algo], 1, 10)])),
                w, <<>>)
        ELSE Raise(IF n[a.algo].fitted THEN "KeyError" ELSE "AttributeError", n, w, <<>>)

\* df['predicted_rating'] = df.apply(lambda x: svd.predict(x['userId'], x['movieId']).est, axis=1)
E_predict_all(s, n, w) ==
    LET df == n["df"]
        a == s.args
    IN  IF {a.uid, a.iid} \subseteq Range(df.columns) /\ n[a.algo].fitted
        THEN Ok(Bind(n, "df",
                     setitem(df, a.col,
                             [i \in DOMAIN df.rows |->
                                 Est(n[a.algo], df.rows[i][a.uid], df.rows[i][a.iid])])),
                w, <<>>)
        ELSE Raise(IF n[a.algo].fitted THEN "KeyError" ELSE "AttributeError", n, w, <<>>)

(* The regularization notebook's library calls. *)

\* np.random.uniform(lo, hi, size) / np.random.normal(mu, sigma, size): size values
\* off the kernel's generator, each one of three points of the distribution.
E_draw(s, n, w) ==
    LET a == s.args
        Point(u) == IF a.dist = "uniform" THEN a.lo + ((a.hi - a.lo) \div 2) * u
                    ELSE a.lo + a.hi * (u - 1)
    IN  Ok(Bind(Bind(n, s.tgt, [i \in 1..NObs |-> Point(Sample(env.seed, Rng(n) + i))]),
                "_rng", Rng(n) + NObs), w, <<>>)

\* A variant of y that leaves the noise term out.
E_compute_y_without_noise(s, n, w) ==
    LET c == s.args.coef
    IN  Ok(Bind(n, s.tgt,
                [i \in 1..NObs |->
                    s.args.intercept + c[1] * n["x_1"][i] + c[2] * n["x_2"][i]
                    + c[3] * n["x_3"][i] + c[4] * n["x_4"][i] + c[5] * n["x_5"][i]
                    + c[6] * n["x_6"][i]]), w, <<>>)

\* y = -30 + 1.3*x_1 + 1.6*x_2 + 1.1*x_3 + 0.7*x_4 - 2.1*x_5 - 0.9*x_6 + epsilon (times ten)
E_compute_y(s, n, w) ==
    LET c == s.args.coef
    IN  Ok(Bind(n, s.tgt,
                [i \in 1..NObs |->
                    s.args.intercept + c[1] * n["x_1"][i] + c[2] * n["x_2"][i]
                    + c[3] * n["x_3"][i] + c[4] * n["x_4"][i] + c[5] * n["x_5"][i]
                    + c[6] * n["x_6"][i] + s.args.noise * n["epsilon"][i]]), w, <<>>)

E_new_frame(s, n, w) == Ok(Bind(n, s.tgt, Frame(<<>>, <<>>)), w, <<>>)

E_set_col(s, n, w) ==
    LET values == IF s.args.src = "ones" THEN [i \in 1..NObs |-> 1] ELSE n[s.args.src]
    IN  Ok(Bind(n, s.tgt, setitem(n[s.args.frame], s.args.col, values)), w, <<>>)

\* sm.OLS(y, X).fit()
E_ols_fit(s, n, w) ==
    Ok(Bind(n, s.tgt, [class |-> "OLS", exog_names |-> n[s.args.exog].columns,
                       exog |-> n[s.args.exog].rows, endog |-> n[s.args.endog]]), w, <<>>)

\* A variant that drops the columns in a copy it throws away: X_ext.drop(columns=[...])
E_drop_cols_result_discarded(s, n, w) ==
    IF s.args.columns \subseteq Range(n[s.args.frame].columns)
    THEN Ok(n, w, <<>>)
    ELSE Raise("KeyError", n, w, <<>>)

\* X_ext = X_ext.drop(columns=[...])
E_drop_cols(s, n, w) ==
    IF s.args.columns \subseteq Range(n[s.args.frame].columns)
    THEN Ok(Bind(n, s.tgt, drop(n[s.args.frame], s.args.columns)), w, <<>>)
    ELSE Raise("KeyError", n, w, <<>>)

\* lm.Lasso(alpha=a).fit(X, y) / lm.Ridge(alpha=a).fit(X, y)
E_sk_fit(s, n, w) ==
    Ok(Bind(n, s.tgt, [class |-> s.args.class, alpha |-> s.args.alpha,
                       feature_names |-> n[s.args.X].columns,
                       X |-> n[s.args.X].rows, y |-> n[s.args.y]]), w, <<>>)

\* The statement s in namespace n and world w.
Eval(s, n, w) ==
    IF ~(s.uses \subseteq DOMAIN n) THEN Raise("NameError", n, w, <<>>)
    ELSE CASE s.op = "import" -> E_import(s, n, w)
           [] s.op = "pip" -> E_pip(s, n, w)
           [] s.op = "read" -> E_read(s, n, w)
           [] s.op = "to_excel" -> E_to_excel(s, n, w)
           [] s.op = "display" -> E_display(s, n, w)
           [] s.op = "assign" -> E_assign(s, n, w)
           [] s.op = "apply_leaning" -> E_apply_leaning(s, n, w)
           [] s.op = "get_loc" -> E_get_loc(s, n, w)
           [] s.op = "drop_range" -> E_drop_range(s, n, w)
           [] s.op = "merge" -> E_merge(s, n, w)
           [] s.op = "new" -> E_new(s, n, w)
           [] s.op = "load_from_df" -> E_load_from_df(s, n, w)
           [] s.op = "cross_validate" -> E_cross_validate(s, n, w)
           [] s.op = "fit" -> E_fit(s, n, w)
           [] s.op = "build_full_trainset" -> E_build_full_trainset(s, n, w)
           [] s.op = "train_test_split" -> E_train_test_split(s, n, w)
           [] s.op = "predict" -> E_predict(s, n, w)
           [] s.op = "test" -> E_test(s, n, w)
           [] s.op = "rmse" -> E_rmse(s, n, w)
           [] s.op = "predict_all" -> E_predict_all(s, n, w)
           [] s.op = "draw" -> E_draw(s, n, w)
           [] s.op = "compute_y" -> E_compute_y(s, n, w)
           [] s.op = "new_frame" -> E_new_frame(s, n, w)
           [] s.op = "set_col" -> E_set_col(s, n, w)
           [] s.op = "ols_fit" -> E_ols_fit(s, n, w)
           [] s.op = "drop_cols" -> E_drop_cols(s, n, w)
           [] s.op = "sk_fit" -> E_sk_fit(s, n, w)

---------------------------------------------------------------------------
(* Running a notebook.                                                      *)

NCells(nb) == Len(Cells(nb))

\* The statements of a notebook in document order, as <<cell, stmt>>.
RECURSIVE FlatFrom(_, _)
FlatFrom(nb, c) ==
    IF c > NCells(nb) THEN <<>>
    ELSE [j \in 1..Len(Cells(nb)[c]) |-> <<c, j>>] \o FlatFrom(nb, c + 1)

Flat(nb) == FlatFrom(nb, 1)

\* The handler around a statement.  No cell of any notebook has a try/except.
handler_pass(nb, s) == "pass"

handler(nb, s) == "none"

\* What the kernel does after statement s returned or raised (result r):
\* "next" statement, "again" the same one, or "abort" the cell.
Outcome(nb, s, r) ==
    IF r.ok THEN "next"
    ELSE CASE handler(nb, s) = "none" -> "abort"
           [] handler(nb, s) = "pass" -> "next"
           [] handler(nb, s) = "retry" -> "again"

LogEntry(c, j, s, r) ==
    [cell |-> c, stmt |-> j, op |-> s.op, stage |-> s.stage, model |-> s.model,
     ok |-> r.ok, exc |-> r.exc]

\* A run of statements i..k of the notebook alone, from result r on; it stops at
\* the first statement that raises.  done counts the statements that returned.
RECURSIVE Run(_, _, _, _)
Run(nb, i, k, r) ==
    IF i > k \/ ~r.ok THEN r
    ELSE LET at == Flat(nb)[i]
             s == Cells(nb)[at[1]][at[2]]
             q == Eval(s, r.ns, [fs |-> r.fs, site |-> r.site])
         IN  Run(nb, i + 1, k,
                 [ok |-> q.ok, exc |-> q.exc, ns |-> q.ns, fs |-> q.fs, site |-> q.site,
                  ext |-> r.ext \o q.ext, done |-> IF q.ok THEN i ELSE r.done,
                  log |-> Append(r.log, LogEntry(at[1], at[2], s, q))])

\* The notebook run alone, from the initial world to its end or its first error.
RunAlone(nb) ==
    Run(nb, 1, Len(Flat(nb)), [ok |-> TRUE, exc |-> "", ns |-> EmptyNs, fs |-> env.fs0,
                   site |-> env.site0, ext |-> <<>>, done |-> 0, log |-> <<>>])

CurStmt(nb) == Cells(nb)[pc[nb].cell][pc[nb].stmt]

World == [fs |-> fs, site |-> site_packages]

\* The kernel takes the notebook's next cell, when no cell is executing in it,
\* and stamps the cell with its execution count.
StartCell(nb) ==
    LET c == pc[nb].cell
        k == Kernel(nb)
    IN  /\ status[nb] = "ready"
        /\ running[k] = {}
        /\ running' = [running EXCEPT ![k] = {<<nb, c>>}]
        /\ In' = [In EXCEPT ![k] = execution_count(nb)[c]]
        /\ stamped' = [stamped EXCEPT ![nb] = Append(@, execution_count(nb)[c])]
        /\ status' = [status EXCEPT ![nb] = "busy"]
        /\ UNCHANGED <<fs, site_packages, env, ns, pc, log, ext>>

\* The effects of the current statement's result r, and where the kernel goes next.
Commit(nb, s, r) ==
    LET c == pc[nb].cell
        j == pc[nb].stmt
        k == Kernel(nb)
        o == Outcome(nb, s, r)
        last == j = Len(Cells(nb)[c])
    IN  /\ log' = [log EXCEPT ![nb] = Append(@, LogEntry(c, j, s, r))]
        /\ ext' = [ext EXCEPT ![nb] = @ \o r.ext]
        /\ fs' = r.fs
        /\ site_packages' = r.site
        /\ ns' = [ns EXCEPT ![k] = r.ns]
        /\ pc' = [pc EXCEPT ![nb] =
                    IF o = "next" THEN (IF last THEN [cell |-> c + 1, stmt |-> 1]
                                        ELSE [cell |-> c, stmt |-> j + 1])
                    ELSE @]
        /\ status' = [status EXCEPT ![nb] =
                    IF o = "abort" THEN "error"
                    ELSE IF o = "next" /\ last
                         THEN (IF c = NCells(nb) THEN "done" ELSE "ready")
                         ELSE "busy"]
        /\ running' = [running EXCEPT ![k] =
                    IF o = "abort" \/ (o = "next" /\ last) THEN @ \ {<<nb, c>>} ELSE @]
        /\ UNCHANGED <<env, In, stamped>>

\* The current statement of the cell executing in the notebook's kernel is of kind op.
At(nb, op) ==
    /\ status[nb] = "busy"
    /\ <<nb, pc[nb].cell>> \in running[Kernel(nb)]
    /\ CurStmt(nb).op = op

\* The result of the notebook's current statement in the state as it is.
Result(nb) == Eval(CurStmt(nb), ns[Kernel(nb)], World)

\* One action for each kind of statement: the kernel executes it.
ImportModule(nb) ==
    /\ At(nb, "import")
    /\ Commit(nb, CurStmt(nb), Result(nb))

PipInstall(nb) ==
    /\ At(nb, "pip")
    /\ Commit(nb, CurStmt(nb), Result(nb))

ReadFile(nb) ==
    /\ At(nb, "read")
    /\ Commit(nb, CurStmt(nb), Result(nb))

WriteExcel(nb) ==
    /\ At(nb, "to_excel")
    /\ Commit(nb, CurStmt(nb), Result(nb))

Show(nb) ==
    /\ At(nb, "display")
    /\ Commit(nb, CurStmt(nb), Result(nb))

AssignName(nb) ==
    /\ At(nb, "assign")
    /\ Commit(nb, CurStmt(nb), Result(nb))

ApplyLeaning(nb) ==
    /\ At(nb, "apply_leaning")
    /\ Commit(nb, CurStmt(nb), Result(nb))

GetLoc(nb) ==
    /\ At(nb, "get_loc")
    /\ Commit(nb, CurStmt(nb), Result(nb))

DropRange(nb) ==
    /\ At(nb, "drop_range")
    /\ Commit(nb, CurStmt(nb), Result(nb))

Merge(nb) ==
    /\ At(nb, "merge")
    /\ Commit(nb, CurStmt(nb), Result(nb))

New(nb) ==
    /\ At(nb, "new")
    /\ Commit(nb, CurStmt(nb), Result(nb))

LoadFromDf(nb) ==
    /\ At(nb, "load_from_df")
    /\ Commit(nb, CurStmt(nb), Result(nb))

CrossValidate(nb) ==
    /\ At(nb, "cross_validate")
    /\ Commit(nb, CurStmt(nb), Result(nb))

Fit(nb) ==
    /\ At(nb, "fit")
    /\ Commit(nb, CurStmt(nb), Result(nb))

BuildFullTrainset(nb) ==
    /\ At(nb, "build_full_trainset")
    /\ Commit(nb, CurStmt(nb), Result(nb))

TrainTestSplit(nb) ==
    /\ At(nb, "train_test_split")
    /\ Commit(nb, CurStmt(nb), Result(nb))

Predict(nb) ==
    /\ At(nb, "predict")
    /\ Commit(nb, CurStmt(nb), Result(nb))

Test(nb) ==
    /\ At(nb, "test")
    /\ Commit(nb, CurStmt(nb), Result(nb))

Rmse(nb) ==
    /\ At(nb, "rmse")
    /\ Commit(nb, CurStmt(nb), Result(nb))

PredictAll(nb) ==
    /\ At(nb, "predict_all")
    /\ Commit(nb, CurStmt(nb), Result(nb))

DrawSample(nb) ==
    /\ At(nb, "draw")
    /\ Commit(nb, CurStmt(nb), Result(nb))

ComputeY(nb) ==
    /\ At(nb, "compute_y")
    /\ Commit(nb, CurStmt(nb), Result(nb))

NewFrame(nb) ==
    /\ At(nb, "new_frame")
    /\ Commit(nb, CurStmt(nb), Result(nb))

SetColumn(nb) ==
    /\ At(nb, "set_col")
    /\ Commit(nb, CurStmt(nb), Result(nb))

OlsFit(nb) ==
    /\ At(nb, "ols_fit")
    /\ Commit(nb, CurStmt(nb), Result(nb))

DropCols(nb) ==
    /\ At(nb, "drop_cols")
    /\ Commit(nb, CurStmt(nb), Result(nb))

SkFit(nb) ==
    /\ At(nb, "sk_fit")
    /\ Commit(nb, CurStmt(nb), Result(nb))

---------------------------------------------------------------------------
(* The initial world: the files, the Python environment, the network.       *)

BaseSite == {"numpy", "pandas", "seaborn", "matplotlib", "statsmodels", "sklearn"}

\* The labels a survey row may carry in F_PARTYSUMIDEO_FINAL: the six of the
\* mapping, an empty cell, and two that differ from a key in case or spelling.
Labels == DOMAIN mapping \cup {NaN, "conservative rep/lean", "Liberal Dem"}

PartyValues ==
    [F_PARTYLN_FINAL : {NaN, "The Republican Party"},
     F_PARTYSUM_FINAL : {"Rep/Lean Rep", "Dem/Lean Dem"},
     F_PARTYSUMIDEO_FINAL : Labels]

\* A sheet with the given columns; a row holds its party values where the sheet
\* has the column, and "x" in every other column.
Sheet(columns, party) ==
    Frame(columns,
          [i \in DOMAIN party |->
              [c \in Range(columns) |-> IF c \in DOMAIN party[i] THEN party[i][c] ELSE "x"]])

MidCols == <<"SMALG2_W99", "SMALG3_W99", "DCARS1_W99", "DCARS2_W99">>

\* The columns of a survey sheet: which of the two boundary columns it has, in
\* which order, with how many columns between them, and whether it has the
\* ideology column.
Layout(hasStart, hasEnd, swapped, mid, hasIdeo) ==
    LET s == IF hasStart THEN <<start_col>> ELSE <<>>
        e == IF hasEnd THEN <<end_col>> ELSE <<>>
    IN  <<"QKEY">> \o (IF swapped THEN e ELSE s) \o SubSeq(MidCols, 1, mid)
        \o (IF swapped THEN s ELSE e)
        \o <<"F_PARTYLN_FINAL", "F_PARTYSUM_FINAL">>
        \o (IF hasIdeo THEN <<"F_PARTYSUMIDEO_FINAL">> ELSE <<>>)
        \o <<"WEIGHT_W99">>

Layouts ==
    {Layout(a, b, sw, m, i) : a \in BOOLEAN, b \in BOOLEAN, sw \in BOOLEAN,
                              m \in 0..MaxMid, i \in BOOLEAN}

DefaultLayout == Layout(TRUE, TRUE, FALSE, 1, TRUE)

DefaultParty ==
    << [F_PARTYLN_FINAL |-> NaN, F_PARTYSUM_FINAL |-> "Rep/Lean Rep",
        F_PARTYSUMIDEO_FINAL |-> "Conservative Rep/Lean"],
       [F_PARTYLN_FINAL |-> NaN, F_PARTYSUM_FINAL |-> "Dem/Lean Dem",
        F_PARTYSUMIDEO_FINAL |-> "Moderate/Conservative Dem/Lean"] >>

\* ratings.csv and movies.csv as served; one rating is of a movie not listed.
RatingsCsv ==
    LET R(u, m, r) == ("userId" :> u) @@ ("movieId" :> m) @@ ("rating" :> r)
                      @@ ("timestamp" :> "t")
    IN  Frame(<<"userId", "movieId", "rating", "timestamp">>,
              << R(1, 10, 4), R(1, 20, 3), R(2, 10, 5), R(2, 30, 2),
                 R(2, 20, 4), R(1, 30, 5), R(2, 40, 1) >>)

MoviesCsv ==
    LET M(m, title) == ("movieId" :> m) @@ ("title" :> title) @@ ("genres" :> "g")
    IN  Frame(<<"movieId", "title", "genres">>,
              << M(10, "Heat"), M(20, "Casino"), M(30, "Sabrina") >>)

Remote == (RatingsUrl :> RatingsCsv) @@ (MoviesUrl :> MoviesCsv)

World0(net, writable, seed, fs0, site0) ==
    [net |-> net, writable |-> writable, seed |-> seed, fs0 |-> fs0, site0 |-> site0]

WithSurvey(sheet) == (SrcPath :> sheet) @@ Remote

\* The worlds of the three notebooks run together: a fresh environment with
\* everything in reach; one without the survey sheet, in which the recommender's
\* package is installed already, under each seed; and one without the network.
Worlds ==
    LET good == WithSurvey(Sheet(DefaultLayout, DefaultParty))
        full == BaseSite \cup {"surprise"}
    IN  {World0(TRUE, TRUE, 0, good, BaseSite), World0(FALSE, TRUE, 0, good, BaseSite)}
        \cup {World0(TRUE, TRUE, seed, Remote, full) : seed \in 0..MaxSeed}

\* The worlds of the survey notebook run alone: every layout of the sheet, or
\* no sheet, on a disk that takes the write or refuses it.
SurveyWorlds ==
    {World0(TRUE, w, 0, f, BaseSite) :
        w \in BOOLEAN,
        f \in {Remote} \cup {WithSurvey(Sheet(l, DefaultParty)) : l \in Layouts}}

\* The worlds in which the remapping is applied: the default layout with every
\* choice of 1..MaxRows rows.
LeaningWorlds ==
    {World0(TRUE, TRUE, 0, WithSurvey(Sheet(DefaultLayout, party)), BaseSite) :
        party \in UNION {[1..len -> PartyValues] : len \in 1..MaxRows}}

InitIn(worlds) ==
    /\ env \in worlds
    /\ fs = env.fs0
    /\ site_packages = env.site0
    /\ ns = [k \in Kernels |-> EmptyNs]
    /\ pc = [nb \in Notebooks |-> [cell |-> 1, stmt |-> 1]]
    /\ status = [nb \in Notebooks |-> "ready"]
    /\ running = [k \in Kernels |-> {}]
    /\ In = [k \in Kernels |-> 0]
    /\ stamped = [nb \in Notebooks |-> <<>>]
    /\ log = [nb \in Notebooks |-> <<>>]
    /\ ext = [nb \in Notebooks |-> <<>>]

Init == InitIn(Worlds)

SurveyInit == InitIn(SurveyWorlds)

\* The survey notebook about to apply the remapping, having read the sheet and
\* run every statement before the apply.
LeaningInit ==
    LET nb == "survey"
        at == <<4, 2>>
        before == 7
    IN  /\ env \in LeaningWorlds
        /\ fs = env.fs0
        /\ site_packages = env.site0
        /\ ns = [k \in Kernels |->
                    IF k = Kernel(nb)
                    THEN ("np" :> [module |-> "numpy"]) @@ ("pd" :> [module |-> "pandas"])
                         @@ ("sns" :> [module |-> "seaborn"])
                         @@ ("plt" :> [module |-> "matplotlib"])
                         @@ ("df" :> env.fs0[SrcPath])
                         @@ ("calculate_political_leaning" :> "function")
                    ELSE EmptyNs]
        /\ pc = [n \in Notebooks |-> IF n = nb THEN [cell |-> at[1], stmt |-> at[2]]
                                     ELSE [cell |-> 1, stmt |-> 1]]
        /\ status = [n \in Notebooks |-> IF n = nb THEN "busy" ELSE "ready"]
        /\ running = [k \in Kernels |-> IF k = Kernel(nb) THEN {<<nb, at[1]>>} ELSE {}]
        /\ In = [k \in Kernels |-> IF k = Kernel(nb) THEN execution_count(nb)[at[1]] ELSE 0]
        /\ stamped = [n \in Notebooks |->
                        IF n = nb THEN SubSeq(execution_count(nb), 1, at[1]) ELSE <<>>]
        /\ log = [n \in Notebooks |->
                    IF n = nb
                    THEN [i \in 1..before |->
                            LogEntry(Flat(nb)[i][1], Flat(nb)[i][2],
                                     Cells(nb)[Flat(nb)[i][1]][Flat(nb)[i][2]],
                                     [ok |-> TRUE, exc |-> ""])]
                    ELSE <<>>]
        /\ ext = [n \in Notebooks |->
                    IF n = nb THEN << [kind |-> "read", target |-> SrcPath] >> ELSE <<>>]

SurveyNext ==
    \/ StartCell("survey")
    \/ ImportModule("survey")
    \/ ReadFile("survey")
    \/ Show("survey")
    \/ AssignName("survey")
    \/ ApplyLeaning("survey")
    \/ WriteExcel("survey")
    \/ GetLoc("survey")
    \/ DropRange("survey")

LeaningNext == ApplyLeaning("survey")

Next ==
    \E nb \in Notebooks :
        \/ StartCell(nb)
        \/ ImportModule(nb)
        \/ PipInstall(nb)
        \/ ReadFile(nb)
        \/ WriteExcel(nb)
        \/ Show(nb)
        \/ AssignName(nb)
        \/ ApplyLeaning(nb)
        \/ GetLoc(nb)
        \/ DropRange(nb)
        \/ Merge(nb)
        \/ New(nb)
        \/ LoadFromDf(nb)
        \/ CrossValidate(nb)
        \/ Fit(nb)
        \/ BuildFullTrainset(nb)
        \/ TrainTestSplit(nb)
        \/ Predict(nb)
        \/ Test(nb)
        \/ Rmse(nb)
        \/ PredictAll(nb)
        \/ DrawSample(nb)
        \/ ComputeY(nb)
        \/ NewFrame(nb)
        \/ SetColumn(nb)
        \/ OlsFit(nb)
        \/ DropCols(nb)
        \/ SkFit(nb)

Spec == Init /\ [][Next]_vars

SurveySpec == SurveyInit /\ [][SurveyNext]_vars

LeaningSpec == LeaningInit /\ [][LeaningNext]_vars

---------------------------------------------------------------------------
(* The survey notebook: the remapping and the column drop. *)

\* The frame bound to df in the survey notebook's kernel.
SurveyDf == ns[Kernel("survey")]["df"]

\* The apply statement has run: df carries the political_leaning_index column.
LeaningApplied ==
    /\ "df" \in DOMAIN ns[Kernel("survey")]
    /\ "political_leaning_index" \in Range(SurveyDf.columns)

\* The table of the remapping, written out label by label.
ExpectedIndex(label) ==
    CASE label = "Conservative Rep/Lean" -> -2
      [] label = "Moderate/Liberal Rep/Lean" -> -1
      [] label = "Moderate/Conservative Dem/Lean" -> 1
      [] label = "Liberal Dem/Lean" -> 2
      [] label = "Refused either F_IDEO or F_PARTYSUM_FINAL" -> 0
      [] label = "DK/Refused/No lean" -> 0
      [] OTHER -> 0

\* C1: once the remapping has been applied, the index of every row is the table
\* lookup of the row's F_PARTYSUMIDEO_FINAL, and 0 for any value off the table
\* (an empty cell, a label in another case or spelling).
C1_IndexIsTableLookup ==
    LeaningApplied =>
        \A i \in DOMAIN SurveyDf.rows :
            SurveyDf.rows[i]["political_leaning_index"]
                = ExpectedIndex(SurveyDf.rows[i]["F_PARTYSUMIDEO_FINAL"])

\* The remapping applied to a row on the table and to a row whose label differs
\* from a key in case only.
C1_Witness ==
    /\ LeaningApplied
    /\ \E i, j \in DOMAIN SurveyDf.rows :
        /\ SurveyDf.rows[i]["F_PARTYSUMIDEO_FINAL"] = "Conservative Rep/Lean"
        /\ SurveyDf.rows[i]["political_leaning_index"] = -2
        /\ SurveyDf.rows[j]["F_PARTYSUMIDEO_FINAL"] = "conservative rep/lean"
        /\ SurveyDf.rows[j]["political_leaning_index"] = 0

\* C2: once the remapping has been applied, two rows with the same
\* F_PARTYSUMIDEO_FINAL have the same index, whatever their other fields hold.
C2_OneColumnDecides ==
    LeaningApplied =>
        \A i, j \in DOMAIN SurveyDf.rows :
            SurveyDf.rows[i]["F_PARTYSUMIDEO_FINAL"] = SurveyDf.rows[j]["F_PARTYSUMIDEO_FINAL"]
                => SurveyDf.rows[i]["political_leaning_index"]
                       = SurveyDf.rows[j]["political_leaning_index"]

\* Two rows with the same label off the table that differ in both other party
\* fields, after the remapping.
C2_Witness ==
    /\ LeaningApplied
    /\ \E i, j \in DOMAIN SurveyDf.rows :
        /\ SurveyDf.rows[i]["F_PARTYSUMIDEO_FINAL"] = "Liberal Dem"
        /\ SurveyDf.rows[j]["F_PARTYSUMIDEO_FINAL"] = "Liberal Dem"
        /\ SurveyDf.rows[i]["F_PARTYLN_FINAL"] # SurveyDf.rows[j]["F_PARTYLN_FINAL"]
        /\ SurveyDf.rows[i]["F_PARTYSUM_FINAL"] # SurveyDf.rows[j]["F_PARTYSUM_FINAL"]
        /\ SurveyDf.rows[i]["political_leaning_index"]
               = SurveyDf.rows[j]["political_leaning_index"]

\* The inputs the header comment of calculate_political_leaning lists.
ListedInputs == {"F_PARTYLN_FINAL", "F_PARTYSUM_FINAL", "F_PARTYSUMIDEO_FINAL"}

\* C3: each input the header lists bears on the index: once the remapping has
\* been applied, for each listed field there are two rows that differ in that
\* field only and get different indices.
C3_EachListedInputBears ==
    LeaningApplied =>
        \A f \in ListedInputs :
            \E r1, r2 \in PartyValues :
                /\ \A g \in ListedInputs : (g # f) => r1[g] = r2[g]
                /\ r1[f] # r2[f]
                /\ calculate_political_leaning(r1) # calculate_political_leaning(r2)

\* C4: once the remapping has been applied, every index is one of -2..2,
\* negative exactly for the two Rep/Lean labels, positive exactly for the two
\* Dem/Lean labels, and 0 for every other value.
C4_IndexRangeAndSign ==
    LeaningApplied =>
        \A i \in DOMAIN SurveyDf.rows :
            LET label == SurveyDf.rows[i]["F_PARTYSUMIDEO_FINAL"]
                index == SurveyDf.rows[i]["political_leaning_index"]
            IN  /\ index \in -2..2
                /\ index < 0 <=> label \in {"Conservative Rep/Lean", "Moderate/Liberal Rep/Lean"}
                /\ index > 0 <=> label \in {"Moderate/Conservative Dem/Lean", "Liberal Dem/Lean"}

\* A refusal and an empty cell, both with index 0 after the remapping.
C4_Witness ==
    /\ LeaningApplied
    /\ \E i, j \in DOMAIN SurveyDf.rows :
        /\ SurveyDf.rows[i]["F_PARTYSUMIDEO_FINAL"] = "DK/Refused/No lean"
        /\ SurveyDf.rows[j]["F_PARTYSUMIDEO_FINAL"] = NaN
        /\ SurveyDf.rows[i]["political_leaning_index"] = 0
        /\ SurveyDf.rows[j]["political_leaning_index"] = 0

\* The 1-based position of a label among the columns.
Pos(columns, name) == CHOOSE p \in 1..Len(columns) : columns[p] = name

\* C5: the drop statement, when SMALG1_W99 is at or before DCARS13_d_W99,
\* removes the columns at the positions from the one to the other, both
\* included, and keeps every other column in its order; the column count
\* falls by pos(DCARS13_d_W99) - pos(SMALG1_W99) + 1.
C5_DropsInclusiveRange ==
    [][ LET before == SurveyDf.columns
            after == ns'[Kernel("survey")]["df"].columns
            ps == Pos(before, start_col)
            pe == Pos(before, end_col)
            gone == pe - ps + 1
        IN  (At("survey", "drop_range") /\ ps <= pe) =>
                /\ Len(after) = Len(before) - gone
                /\ after = [k \in 1..(Len(before) - gone) |->
                              IF k < ps THEN before[k] ELSE before[k + gone]]
                /\ \A p \in ps..pe : before[p] \notin Range(after)
      ]_vars

\* The drop has just run on a sheet with two columns between the boundaries:
\* four columns are gone, the boundaries among them.
C5_Witness ==
    /\ Len(log["survey"]) > 0
    /\ log["survey"][Len(log["survey"])].op = "drop_range"
    /\ log["survey"][Len(log["survey"])].ok
    /\ Len(env.fs0[SrcPath].columns) >= 9
    /\ Len(SurveyDf.columns) = Len(env.fs0[SrcPath].columns) + 1 - 4
    /\ start_col \notin Range(SurveyDf.columns)
    /\ end_col \notin Range(SurveyDf.columns)
    /\ "WEIGHT_W99" \in Range(SurveyDf.columns)

---------------------------------------------------------------------------
(* The three notebooks together. *)

Last(s) == s[Len(s)]

\* The statement a log entry is about.
StmtOf(nb, e) == Cells(nb)[e.cell][e.stmt]

\* C6: each notebook executes one cell at a time, in document order: at most
\* one cell is executing in its kernel, a cell is started only when every
\* statement of the cells before it has returned, the execution counts stamped
\* on its cells increase strictly, and its statements are attempted in document
\* order, those of one cell never among those of another.
C6_OneCellAtATime ==
    \A nb \in Notebooks :
        /\ Cardinality(running[Kernel(nb)]) <= 1
        /\ status[nb] = "busy" <=> running[Kernel(nb)] = {<<nb, pc[nb].cell>>}
        /\ \A i, j \in DOMAIN stamped[nb] : i < j => stamped[nb][i] < stamped[nb][j]
        /\ \A c \in 1..(Len(stamped[nb]) - 1) :
              \A j \in DOMAIN Cells(nb)[c] :
                  \E e \in Range(log[nb]) : e.cell = c /\ e.stmt = j /\ e.ok
        /\ \A e \in Range(log[nb]) : e.cell <= Len(stamped[nb])
        /\ \A i \in 1..(Len(log[nb]) - 1) :
              \/ /\ log[nb][i + 1].cell = log[nb][i].cell
                 /\ log[nb][i + 1].stmt = log[nb][i].stmt + 1
              \/ /\ log[nb][i + 1].cell = log[nb][i].cell + 1
                 /\ log[nb][i + 1].stmt = 1
                 /\ log[nb][i].stmt = Len(Cells(nb)[log[nb][i].cell])
        /\ Len(log[nb]) > 0 => log[nb][1].cell = 1 /\ log[nb][1].stmt = 1

\* The three kernels each in the middle of a cell, the recommender in In [12]
\* and the regularization notebook in In [7].
C6_Witness ==
    /\ \A nb \in Notebooks : status[nb] = "busy" /\ pc[nb].stmt > 1
    /\ stamped["recommender"] = <<1, 2, 3, 4, 5, 6, 7, 8, 9, 10, 11, 12>>
    /\ stamped["regularization"] = <<1, 2, 3, 4, 5, 6, 7>>
    /\ stamped["survey"] = <<42, 43, 44, 45>>

FitStages == {"fit", "fit_report"}

\* C7 as stated: the attempted statements of every notebook follow the order
\* load, transform, fit, report: after a fit there is no load and no
\* transform, and every report comes after a fit of the model it reports on.
C7_LinearStageOrder ==
    \A nb \in Notebooks :
        /\ \A i, j \in DOMAIN log[nb] :
              (i < j /\ log[nb][i].stage \in FitStages)
                  => log[nb][j].stage \notin {"load", "transform"}
        /\ \A j \in DOMAIN log[nb] :
              log[nb][j].stage = "report"
                  => \E i \in 1..(j - 1) : /\ log[nb][i].stage \in FitStages
                                           /\ log[nb][i].model = log[nb][j].model

\* C7 as amended: every fit comes after a load and a transform that returned,
\* and every report comes after a fit, which returned, of the model it reports
\* on.
C7_FitAfterDataReportAfterFit ==
    \A nb \in Notebooks :
        \A j \in DOMAIN log[nb] :
            /\ log[nb][j].stage \in FitStages
                  => /\ \E i \in 1..(j - 1) : log[nb][i].stage = "load" /\ log[nb][i].ok
                     /\ \E i \in 1..(j - 1) : log[nb][i].stage = "transform" /\ log[nb][i].ok
            /\ log[nb][j].stage = "report"
                  => \E i \in 1..(j - 1) : /\ log[nb][i].stage \in FitStages
                                           /\ log[nb][i].model = log[nb][j].model
                                           /\ log[nb][i].ok

\* Both modelling notebooks have run to their end, each with a transform after
\* a fit and with a report on a model fitted before.
C7_Witness ==
    \A nb \in {"recommender", "regularization"} :
        /\ status[nb] = "done"
        /\ \E i, j \in DOMAIN log[nb] :
              i < j /\ log[nb][i].stage = "fit" /\ log[nb][j].stage = "transform"
        /\ \E i, j \in DOMAIN log[nb] :
              /\ i < j /\ log[nb][i].stage = "fit" /\ log[nb][j].stage = "report"
              /\ log[nb][i].model = log[nb][j].model

\* The targets of a notebook's interactions of one kind.
Targets(nb, kind) == {e.target : e \in {x \in Range(ext[nb]) : x.kind = kind}}

\* The modules a notebook has tried to import.
Imported(nb) ==
    {StmtOf(nb, e).args.module : e \in {x \in Range(log[nb]) : x.op = "import"}}

\* The packages a notebook has tried to install, by the module they provide.
Installed(nb) ==
    {StmtOf(nb, e).args.provides : e \in {x \in Range(log[nb]) : x.op = "pip"}}

\* C8: no notebook reads a file another writes or imports a module another
\* installs; a notebook that has stopped, in whatever interleaving with the
\* others, has the namespace, the statements, the interactions, the outcome
\* and the written files of its run alone.
C8_NoFlowBetweenNotebooks ==
    /\ \A a, b \in Notebooks :
          a # b => /\ Targets(a, "read") \cap Targets(b, "write") = {}
                   /\ Imported(a) \cap Installed(b) = {}
    /\ \A nb \in Notebooks :
          status[nb] \in {"done", "error"} =>
              LET r == RunAlone(nb)
              IN  /\ ns[Kernel(nb)] = r.ns
                  /\ log[nb] = r.log
                  /\ ext[nb] = r.ext
                  /\ (status[nb] = "done") = r.ok
                  /\ \A e \in Range(log[nb]) :
                        (e.op = "to_excel" /\ e.ok)
                            => /\ StmtOf(nb, e).args.path \in DOMAIN fs
                               /\ fs[StmtOf(nb, e).args.path] = r.fs[StmtOf(nb, e).args.path]

\* The survey notebook has written its file and stopped after the recommender
\* installed its package, while the regularization notebook is still running.
C8_Witness ==
    /\ status["survey"] = "done"
    /\ ModPath \in DOMAIN fs
    /\ "surprise" \in site_packages \ env.site0
    /\ status["recommender"] = "done"
    /\ status["regularization"] = "busy"
    /\ "X_ext" \in DOMAIN ns[Kernel("regularization")]

\* C9 as stated: every interaction of every notebook is a read or a write, and
\* a notebook that has run to its end has read a file and written one.
C9_OnlyReadAndWrite ==
    \A nb \in Notebooks :
        /\ \A e \in Range(ext[nb]) : e.kind \in {"read", "write"}
        /\ status[nb] = "done" => Targets(nb, "read") # {} /\ Targets(nb, "write") # {}

\* C9 as amended: the survey notebook reads the Excel sheet and writes the
\* modified one, twice; the recommender installs scikit-surprise and reads the
\* two CSV files from their URLs, and writes nothing; the regularization
\* notebook has no external interaction.
C9_InteractionsByNotebook ==
    /\ \A e \in Range(ext["survey"]) :
          \/ e.kind = "read" /\ e.target = SrcPath
          \/ e.kind = "write" /\ e.target = ModPath
    /\ \A e \in Range(ext["recommender"]) :
          \/ e.kind = "install" /\ e.target = "scikit-surprise"
          \/ e.kind = "read" /\ e.target \in Urls
    /\ ext["regularization"] = <<>>
    /\ status["survey"] = "done" =>
          ext["survey"] = << [kind |-> "read", target |-> SrcPath],
                             [kind |-> "write", target |-> ModPath],
                             [kind |-> "write", target |-> ModPath] >>
    /\ status["recommender"] = "done" =>
          ext["recommender"] = << [kind |-> "install", target |-> "scikit-surprise"],
                                  [kind |-> "read", target |-> RatingsUrl],
                                  [kind |-> "read", target |-> MoviesUrl] >>

\* The three notebooks have run to their end.
C9_Witness ==
    /\ \A nb \in Notebooks : status[nb] = "done"
    /\ Len(ext["survey"]) = 3
    /\ Len(ext["recommender"]) = 3

\* C10: a statement that raises ends its cell and the run: the step leaves the
\* namespace, the files and the packages as the statements before it left
\* them, the statement is in the log once, and from then on the notebook
\* attempts nothing and nothing of its state changes.
C10_FailurePropagates ==
    [][ \A nb \in Notebooks :
          LET attempted == log'[nb] # log[nb]
              raised == attempted /\ ~Last(log'[nb]).ok
          IN  /\ raised =>
                    /\ ns' = ns /\ fs' = fs /\ site_packages' = site_packages
                    /\ status'[nb] = "error"
                    /\ pc'[nb] = pc[nb]
                    /\ running'[Kernel(nb)] = {}
                    /\ log'[nb] = Append(log[nb], Last(log'[nb]))
                    /\ Last(log'[nb]).cell = pc[nb].cell /\ Last(log'[nb]).stmt = pc[nb].stmt
                    /\ \A i \in DOMAIN log[nb] :
                          <<log[nb][i].cell, log[nb][i].stmt>> # <<pc[nb].cell, pc[nb].stmt>>
                    /\ \A i \in DOMAIN log[nb] : log[nb][i].ok
              /\ status[nb] = "error" =>
                    /\ status'[nb] = "error"
                    /\ log'[nb] = log[nb]
                    /\ ns'[Kernel(nb)] = ns[Kernel(nb)]
                    /\ pc'[nb] = pc[nb]
      ]_vars

\* The first write has been refused: the notebook has stopped there, df keeps
\* the index column the apply statement gave it, and no file was written.
C10_Witness ==
    /\ status["survey"] = "error"
    /\ Last(log["survey"]).op = "to_excel"
    /\ Last(log["survey"]).exc = "PermissionError"
    /\ pc["survey"] = [cell |-> 4, stmt |-> 4]
    /\ LeaningApplied
    /\ ModPath \notin DOMAIN fs

---------------------------------------------------------------------------
(* The models of the recommender and of the regularization notebook. *)

\* The names the notebooks bind their models to.
ModelNames == {"algo", "svd", "model_reg", "model_lasso", "model_ridge"}

\* The models bound in a notebook's kernel.
Models(nb) == {ns[Kernel(nb)][m] : m \in ModelNames \cap DOMAIN ns[Kernel(nb)]}

\* The libraries' defaults: surprise computes 'msd' similarities between users,
\* scikit-learn's Lasso and Ridge have alpha = 1.0.
DefaultSimOptions == [name |-> "msd", user_based |-> TRUE]
DefaultAlpha(class) == CASE class = "Lasso" -> 1 [] class = "Ridge" -> 1

\* C11 as stated: every model a notebook has built has the library's default
\* hyperparameters: the default similarity options, the default alpha.
C11_DefaultHyperparameters ==
    \A nb \in Notebooks :
        \A m \in Models(nb) :
            CASE m.class = "KNNBasic" -> m.sim_options = DefaultSimOptions
              [] m.class = "SVD" -> m.given = {}
              [] m.class \in {"Lasso", "Ridge"} -> m.alpha = DefaultAlpha(m.class)
              [] OTHER -> TRUE

\* C11 as amended: the factorization model is built with no argument; the
\* nearest-neighbour models are item-based, with cosine or with the default
\* msd similarity; Lasso is built with alpha 1 or 100 and Ridge with alpha 10
\* or 10000.
C11_HyperparametersAsWritten ==
    \A nb \in Notebooks :
        \A m \in Models(nb) :
            CASE m.class = "KNNBasic" ->
                    /\ m.sim_options \in {[name |-> "cosine", user_based |-> FALSE],
                                          [name |-> "msd", user_based |-> FALSE]}
                    /\ "user_based" \in m.given
              [] m.class = "SVD" -> m.given = {}
              [] m.class = "Lasso" -> m.alpha \in {1, 100}
              [] m.class = "Ridge" -> m.alpha \in {10, 10000}
              [] OTHER -> TRUE

\* Both modelling notebooks have run to their end: the last nearest-neighbour
\* model is item-based with msd, the last Ridge model has alpha 10000.
C11_Witness ==
    /\ status["recommender"] = "done"
    /\ status["regularization"] = "done"
    /\ ns[Kernel("recommender")]["algo"].sim_options = [name |-> "msd", user_based |-> FALSE]
    /\ ns[Kernel("recommender")]["svd"].given = {}
    /\ ns[Kernel("regularization")]["model_ridge"].alpha = 10000
    /\ ns[Kernel("regularization")]["model_lasso"].alpha = 100

\* The namespace of the regularization notebook's kernel.
RegNs == ns[Kernel("regularization")]

\* The response a fitted model was given.
ResponseOf(m) == IF m.class = "OLS" THEN m.endog ELSE m.y

AddedPredictors == {"x_7", "x_8", "x_9", "x_10", "x_11", "x_12"}

\* C12: y is the linear function of x_1..x_6 and epsilon the notebook writes
\* (here times ten), whatever else the kernel holds; it is computed before any
\* of x_7..x_12 is drawn; and every OLS, Lasso and Ridge model was fitted to
\* the y the kernel holds.
C12_ResponseIgnoresAddedPredictors ==
    /\ "y" \in DOMAIN RegNs =>
          RegNs["y"] = [i \in 1..NObs |->
                          -300 + 13 * RegNs["x_1"][i] + 16 * RegNs["x_2"][i]
                          + 11 * RegNs["x_3"][i] + 7 * RegNs["x_4"][i]
                          - 21 * RegNs["x_5"][i] - 9 * RegNs["x_6"][i]
                          + 10 * RegNs["epsilon"][i]]
    /\ \A j \in DOMAIN log["regularization"] :
          StmtOf("regularization", log["regularization"][j]).tgt \in AddedPredictors
              => \E i \in 1..(j - 1) : /\ log["regularization"][i].op = "compute_y"
                                       /\ log["regularization"][i].ok
    /\ \A m \in {"model_reg", "model_lasso", "model_ridge"} \cap DOMAIN RegNs :
          ResponseOf(RegNs[m]) = RegNs["y"]

\* The notebook has run to its end: x_7..x_12 are drawn, the second OLS model
\* has X12 among its regressors, and the Ridge model was fitted to y.
C12_Witness ==
    /\ status["regularization"] = "done"
    /\ AddedPredictors \subseteq DOMAIN RegNs
    /\ "X12" \in Range(RegNs["model_reg"].exog_names)
    /\ RegNs["model_ridge"].y = RegNs["y"]
    /\ \E i \in 1..NObs : RegNs["epsilon"][i] # 0

\* The regressors X1..Xk, in order.
Predictors(k) ==
    SubSeq(<<"X1", "X2", "X3", "X4", "X5", "X6", "X7", "X8", "X9", "X10", "X11", "X12">>, 1, k)

\* The number of statements of a kind that have returned in a notebook.
Returned(nb, op) == Cardinality({i \in DOMAIN log[nb] : log[nb][i].op = op /\ log[nb][i].ok})

\* C13: the first OLS fit is given Constant and X1..X6 (7 columns), the second
\* Constant and X1..X12 (13 columns); every Lasso and Ridge fit is given
\* X1..X12 in that order, without Constant.
C13_ConstantOnlyInOlsFits ==
    /\ "model_reg" \in DOMAIN RegNs =>
          /\ Returned("regularization", "ols_fit") = 1
                => RegNs["model_reg"].exog_names = <<"Constant">> \o Predictors(6)
          /\ Returned("regularization", "ols_fit") = 2
                => RegNs["model_reg"].exog_names = <<"Constant">> \o Predictors(12)
          /\ Len(RegNs["model_reg"].exog_names) \in {7, 13}
          /\ \A i \in DOMAIN RegNs["model_reg"].exog :
                RegNs["model_reg"].exog[i]["Constant"] = 1
    /\ \A m \in {"model_lasso", "model_ridge"} \cap DOMAIN RegNs :
          /\ RegNs[m].feature_names = Predictors(12)
          /\ \A i \in DOMAIN RegNs[m].X : DOMAIN RegNs[m].X[i] = Range(Predictors(12))

\* The notebook has run to its end: two OLS fits and four Lasso and Ridge fits
\* have returned.
C13_Witness ==
    /\ status["regularization"] = "done"
    /\ Returned("regularization", "ols_fit") = 2
    /\ Returned("regularization", "sk_fit") = 4
    /\ Len(RegNs["model_reg"].exog_names) = 13
    /\ Len(RegNs["model_lasso"].feature_names) = 12
    /\ RegNs["model_ridge"].feature_names[1] = "X1"

\* The namespace of the recommender's kernel.
RecNs == ns[Kernel("recommender")]

\* The hold-out cell In [12] has fitted its model on the training split.
HoldOutFitted ==
    \E e \in Range(log["recommender"]) : e.cell = 12 /\ e.op = "fit" /\ e.ok

\* C14: the model the hold-out cell fits on the training split has the
\* similarity options of the model cross-validated before it, those of the
\* dictionary sim_options: cosine, item-based.
C14_HoldOutSameOptions ==
    HoldOutFitted =>
        /\ RecNs["algo"].sim_options.name = RecNs["sim_options"].name
        /\ RecNs["algo"].sim_options.user_based = RecNs["sim_options"].user_based
        /\ RecNs["algo"].sim_options = [name |-> "cosine", user_based |-> FALSE]

\* C15: the last statement of the recommender adds the column predicted_rating
\* to df and nothing else: the rows are as many and in the order they were,
\* every other column of every row is as it was, and each row's prediction is
\* the SVD model's estimate for that row's own userId and movieId.
C15_PredictionForEachRow ==
    [][ ( /\ At("recommender", "predict_all")
          /\ log'["recommender"] # log["recommender"]
          /\ Last(log'["recommender"]).ok ) =>
          LET before == RecNs["df"]
              after == ns'[Kernel("recommender")]["df"]
          IN  /\ after.columns = Append(before.columns, "predicted_rating")
              /\ Len(after.rows) = Len(before.rows)
              /\ \A i \in DOMAIN before.rows :
                    /\ \A c \in Range(before.columns) : after.rows[i][c] = before.rows[i][c]
                    /\ after.rows[i]["predicted_rating"].by = "SVD"
                    /\ after.rows[i]["predicted_rating"].uid = before.rows[i]["userId"]
                    /\ after.rows[i]["predicted_rating"].iid = before.rows[i]["movieId"]
                    /\ after.rows[i]["predicted_rating"].trainset = RecNs["svd"].trainset
      ]_vars

\* The recommender has run to its end: df has its prediction column, for rows
\* of more than one user and more than one movie.
C15_Witness ==
    /\ status["recommender"] = "done"
    /\ Last(RecNs["df"].columns) = "predicted_rating"
    /\ \E i, j \in DOMAIN RecNs["df"].rows :
          /\ RecNs["df"].rows[i]["userId"] # RecNs["df"].rows[j]["userId"]
          /\ RecNs["df"].rows[i]["predicted_rating"].uid = RecNs["df"].rows[i]["userId"]
          /\ RecNs["df"].rows[j]["predicted_rating"].uid = RecNs["df"].rows[j]["userId"]
    /\ \E i, j \in DOMAIN RecNs["df"].rows :
          RecNs["df"].rows[i]["movieId"] # RecNs["df"].rows[j]["movieId"]

---------------------------------------------------------------------------
(* The files of the survey notebook. *)

\* The columns of the sheet as read at the positions from SMALG1_W99 to
\* DCARS13_d_W99, both included (none when the second is before the first).
DroppedRange ==
    LET orig == env.fs0[SrcPath].columns
    IN  {orig[p] : p \in Pos(orig, start_col)..Pos(orig, end_col)}

\* C16: once the survey notebook has run to its end, the modified file is the
\* frame of the second write: it has the political_leaning_index column and
\* no column of the range SMALG1_W99..DCARS13_d_W99; the source file has been
\* read once, has never been written and is as it was.
C16_ModifiedFileIsSecondWrite ==
    /\ status["survey"] = "done" =>
          /\ ModPath \in DOMAIN fs
          /\ fs[ModPath] = SurveyDf
          /\ "political_leaning_index" \in Range(fs[ModPath].columns)
          /\ DroppedRange \cap Range(fs[ModPath].columns) = {}
          /\ fs[ModPath].columns
                = SelectSeq(Append(env.fs0[SrcPath].columns, "political_leaning_index"),
                            LAMBDA c : c \notin DroppedRange)
          /\ Cardinality({i \in DOMAIN ext["survey"] :
                            ext["survey"][i] = [kind |-> "read", target |-> SrcPath]}) = 1
    /\ SrcPath \notin Targets("survey", "write")
    /\ SrcPath \in DOMAIN env.fs0 => SrcPath \in DOMAIN fs /\ fs[SrcPath] = env.fs0[SrcPath]

\* The notebook has run to its end on a sheet with two columns between the
\* boundaries: the modified file has lost four columns and gained the index.
C16_Witness ==
    /\ status["survey"] = "done"
    /\ Len(env.fs0[SrcPath].columns) = 9
    /\ Cardinality(DroppedRange) = 4
    /\ Len(fs[ModPath].columns) = 6
    /\ Last(fs[ModPath].columns) = "political_leaning_index"
    /\ Len(ext["survey"]) = 3

===========================================================================
